---- MODULE Spec2Model ----
(***************************************************************************)
(* The CityGML parse-filter-rebuild engine of src/filter.py:               *)
(* Xml (parser), Node.build (serializer), collect_gml_id_recurse,          *)
(* find_path_to, prune_to_targets, filter_appearance_members and           *)
(* filter_gml_content.                                                     *)
(*                                                                         *)
(* Text is a sequence of symbols.  The symbols "<", ">", "/", "=", "#",    *)
(* "?", the double quote, the blank and the newline are the characters the *)
(* code looks at one by one; every other symbol ("core:", "Building",      *)
(* "B1", ...) stands for a fixed run of characters none of which is one of *)
(* those, so that find, strip, split, startswith and the slices of the     *)
(* code cut the text at the same places.  Cursors and slice bounds are     *)
(* Python's: 0-based, -1 for "not found", negative bounds counted from the *)
(* end.  content.decode('utf-8') and str.encode() are inverse bijections   *)
(* on valid UTF-8 and have no definition of their own: content and out are *)
(* the decoded text.                                                       *)
(***************************************************************************)
EXTENDS Integers, Sequences, FiniteSets, TLC

VARIABLES
    content,          \* filter_gml_content's argument content (decoded)
    gml_ids,          \* filter_gml_content's argument gml_ids, as a set
    pc,               \* position inside filter_gml_content
    header,           \* xml.header
    nodes,            \* the Node objects: object identity |-> [name, attr, children]
    root,             \* xml.root (0 is None)
    k,                \* position of round 1's loop in root.children (0-based)
    new_toplevels,    \* round 1's new_toplevels
    referred_gmlids,  \* round 1's referred_gmlids
    referred_images,  \* the set filter_appearance_members returned
    out,              \* the text returned
    parsed,           \* the children lists as Xml(text) left them
    call,             \* 1: the call on the input, 2: the call on the first call's output
    first             \* what the first call returned

vars == <<content, gml_ids, pc, header, nodes, root, k, new_toplevels,
          referred_gmlids, referred_images, out, parsed, call, first>>

----------------------------------------------------------------------------
(* Python's str operations, on sequences of symbols.                       *)

WS == {" ", "\n"}

Min2(a, b) == IF a < b THEN a ELSE b
Max2(a, b) == IF a > b THEN a ELSE b

\* a slice bound as Python clamps it
Clamp(n, len) == IF n < 0 THEN Max2(n + len, 0) ELSE Min2(n, len)

\* s[a:b]
Slice(s, a, b) == SubSeq(s, Clamp(a, Len(s)) + 1, Clamp(b, Len(s)))

\* s[i:i+1], the empty text when i is past the end
At(s, i) == Slice(s, i, i + 1)

\* s.find(c, from) for a one-character c: FindFrom scans from index j >= 0
RECURSIVE FindFrom(_, _, _)
FindFrom(s, c, j) ==
    IF j >= Len(s) THEN -1
    ELSE IF s[j + 1] = c THEN j
    ELSE FindFrom(s, c, j + 1)

Find(s, c, from) == FindFrom(s, c, Clamp(from, Len(s)))

\* s.find(c1 c2, 0) for a two-character pattern
Find2(s, c1, c2) ==
    LET hits == {j \in 0 .. Len(s) - 2 : s[j + 1] = c1 /\ s[j + 2] = c2}
    IN  IF hits = {} THEN -1 ELSE CHOOSE j \in hits : \A h \in hits : j <= h

StartsWith(s, p) == Len(s) >= Len(p) /\ SubSeq(s, 1, Len(p)) = p

EndsWith(s, p) == Len(s) >= Len(p) /\ SubSeq(s, Len(s) - Len(p) + 1, Len(s)) = p

\* s.lstrip(chars), s.rstrip(chars), s.strip(chars): chars is a set of symbols.
\* LeftStay is the first position from j on that stays, RightStay the last one
\* up to j.
RECURSIVE LeftStay(_, _, _), RightStay(_, _, _)
LeftStay(s, chars, j) ==
    IF j > Len(s) \/ s[j] \notin chars THEN j ELSE LeftStay(s, chars, j + 1)

RightStay(s, chars, j) ==
    IF j < 1 \/ s[j] \notin chars THEN j ELSE RightStay(s, chars, j - 1)

LStripOf(s, chars) == SubSeq(s, LeftStay(s, chars, 1), Len(s))

RStripOf(s, chars) == SubSeq(s, 1, RightStay(s, chars, Len(s)))

StripOf(s, chars) == LStripOf(RStripOf(s, chars), chars)

Strip(s) == StripOf(s, WS)

RStrip(s) == RStripOf(s, WS)

\* the first position from j on whose symbol is in chars, Len(s) + 1 if none
RECURSIVE FirstIn(_, _, _)
FirstIn(s, chars, j) ==
    IF j > Len(s) \/ s[j] \in chars THEN j ELSE FirstIn(s, chars, j + 1)

\* s.split(): the runs of non-whitespace symbols, in order
RECURSIVE Split(_)
Split(s) ==
    LET t == LStripOf(s, WS)
        n == FirstIn(t, WS, 1)
    IN  IF t = <<>> THEN <<>>
        ELSE <<SubSeq(t, 1, n - 1)>> \o Split(SubSeq(t, n, Len(t)))

\* tok.split('=', 1)[1] of a token holding a "="
AfterEq(tok) == Slice(tok, Find(tok, "=", 0) + 1, Len(tok))

\* s.removeprefix('#')
RemovePrefixHash(s) == IF StartsWith(s, <<"#">>) THEN Slice(s, 1, Len(s)) ELSE s

----------------------------------------------------------------------------
(* class Node.  A Node object is an index into the sequence of all Node    *)
(* objects created so far (its identity, Python's id()); a child is a Node *)
(* or a str.                                                               *)

Node(name, attr) == [name |-> name, attr |-> attr, children |-> <<>>]

NodeChild(n) == [isNode |-> TRUE, id |-> n, text |-> <<>>]

TextChild(t) == [isNode |-> FALSE, id |-> 0, text |-> t]

\* node.children.append(c)
AppendChild(ns, n, c) == [ns EXCEPT ![n].children = Append(@, c)]

\* a slip: the new list is filled from the front
SetChildrenFront(ns, n, ch) ==
    [ns EXCEPT ![n].children = [j \in 1 .. Len(ch) |-> ch[Len(ch) + 1 - j]]]

\* node.children = ch
SetChildren(ns, n, ch) == [ns EXCEPT ![n].children = ch]

\* the outcome of a call that may raise: "ok", "raise", or "hang" (never returns)
Outcome(st, i, ns, n) == [st |-> st, i |-> i, nodes |-> ns, node |-> n]

build_tag(node) ==
    IF node.attr # <<>>
    THEN <<"<">> \o node.name \o <<" ">> \o node.attr \o <<">">>
    ELSE <<"<">> \o node.name \o <<">">>

\* Node.build: the compact form when no child is a Node, else the tag on a
\* line of its own; the children follow in order, a str child as it is
RECURSIVE NodeBuild(_, _), BuildChildren(_, _, _)
NodeBuild(ns, n) ==
    LET node    == ns[n]
        compact == \A j \in 1 .. Len(node.children) : ~node.children[j].isNode
    IN  build_tag(node)
        \o (IF compact THEN <<>> ELSE <<"\n">>)
        \o BuildChildren(ns, node.children, 1)
        \o <<"<", "/">> \o node.name \o <<">", "\n">>

BuildChildren(ns, ch, j) ==
    IF j > Len(ch) THEN <<>>
    ELSE (IF ch[j].isNode THEN NodeBuild(ns, ch[j].id) ELSE ch[j].text)
         \o BuildChildren(ns, ch, j + 1)

----------------------------------------------------------------------------
(* class Xml.                                                              *)

\* re.match(r'([^\s/>]+)(.*)', tag, re.DOTALL): the length of group 1,
\* 0 when there is no match (.groups() of None then raises)
NameLen(tag) == FirstIn(tag, WS \cup {"/", ">"}, 1) - 1

\* Xml._parse with self.i = i; XmlParseLoop is its while loop, entered with
\* node = ns[me].  A find that returned -1 sets the cursor to 0 (end + 1, i2):
\* a loop that runs with the cursor at 0 parses the root again as a child
\* and comes back to the same place, until Python raises RecursionError.
\* text_end = -1 leaves the cursor at -1 for good: the loop never ends.
RECURSIVE XmlParse(_, _, _), XmlParseLoop(_, _, _, _)
XmlParse(xml, i, ns) ==
    IF i >= Len(xml) \/ At(xml, i) # <<"<">> THEN Outcome("ok", i, ns, 0)
    ELSE
      LET end     == Find(xml, ">", i + 1)
          tag     == Slice(xml, i + 1, end)
          nl      == NameLen(tag)
          tagName == SubSeq(tag, 1, nl)
          rest    == SubSeq(tag, nl + 1, Len(tag))
          me      == Len(ns) + 1
      IN  IF nl = 0 THEN Outcome("raise", i, ns, 0)
          ELSE IF EndsWith(RStrip(rest), <<"/">>)
          THEN Outcome("ok", end + 1,
                       Append(ns, Node(tagName, Strip(Slice(RStrip(rest), 0, -1)))), me)
          ELSE XmlParseLoop(xml, end + 1, Append(ns, Node(tagName, Strip(rest))), me)

\* a slip: the name of a closing tag is not compared
RECURSIVE XmlParseLoopAnyClose(_, _, _, _)
XmlParseLoopAnyClose(xml, i, ns, me) ==
    IF i = 0 THEN Outcome("raise", i, ns, 0)
    ELSE IF ~(i < Len(xml)) THEN Outcome("ok", i, ns, me)
    ELSE IF Slice(xml, i, i + 2) = <<"<", "/">>
    THEN Outcome("ok", Find(xml, ">", i) + 1, ns, me)
    ELSE IF At(xml, i) = <<"<">> THEN
      LET c == XmlParse(xml, i, ns)
      IN  IF c.st # "ok" THEN c
          ELSE XmlParseLoopAnyClose(xml, c.i,
                                    AppendChild(c.nodes, me, NodeChild(c.node)), me)
    ELSE
      LET text_end == Find(xml, "<", i)
          text     == Strip(Slice(xml, i, text_end))
      IN  IF text_end = -1 THEN Outcome("hang", -1, ns, 0)
          ELSE XmlParseLoopAnyClose(xml, text_end,
                                    IF text # <<>> THEN AppendChild(ns, me, TextChild(text))
                                    ELSE ns,
                                    me)

XmlParseLoop(xml, i, ns, me) ==
    IF i = 0 THEN Outcome("raise", i, ns, 0)
    ELSE IF ~(i < Len(xml)) THEN Outcome("ok", i, ns, me)
    ELSE IF Slice(xml, i, i + 2) = <<"<", "/">> THEN
      LET i2 == Find(xml, ">", i) + 1
      IN  IF Slice(xml, i + 2, i2 - 1) = ns[me].name
          THEN Outcome("ok", i2, ns, me)
          ELSE Outcome("raise", i, ns, 0)
    ELSE IF At(xml, i) = <<"<">> THEN
      LET c == XmlParse(xml, i, ns)
      IN  IF c.st # "ok" THEN c
          ELSE XmlParseLoop(xml, c.i, AppendChild(c.nodes, me, NodeChild(c.node)), me)
    ELSE
      LET text_end == Find(xml, "<", i)
          text     == Strip(Slice(xml, i, text_end))
      IN  IF text_end = -1 THEN Outcome("hang", -1, ns, 0)
          ELSE XmlParseLoop(xml, text_end,
                            IF text # <<>> THEN AppendChild(ns, me, TextChild(text)) ELSE ns,
                            me)

\* Xml.__init__: [st, header, nodes, root]; root = 0 is None.  "BOM" is the
\* symbol for U+FEFF.  split('?>', 1) of a text without "?>" yields one part
\* and the unpacking raises.
XmlInit(text) ==
    LET s1        == Strip(text)
        s2        == IF StartsWith(s1, <<"BOM">>) THEN Slice(s1, 1, Len(s1)) ELSE s1
        hasHeader == StartsWith(s2, <<"<", "?", "xml">>)
        cut       == Find2(s2, "?", ">")
        s3        == IF hasHeader THEN Slice(s2, cut + 2, Len(s2)) ELSE s2
        r         == XmlParse(Strip(s3), 0, <<>>)
    IN  IF hasHeader /\ cut = -1
        THEN [st |-> "raise", header |-> <<>>, nodes |-> <<>>, root |-> 0]
        ELSE [st     |-> r.st,
              header |-> IF hasHeader THEN Slice(s2, 0, cut) \o <<"?", ">">> ELSE <<>>,
              nodes  |-> r.nodes,
              root   |-> r.node]

\* Xml.build
XmlBuild(hdr, ns, rt) == hdr \o NodeBuild(ns, rt)

----------------------------------------------------------------------------
(* The Id Indexer, the Target Path Finder and the Pruner.                  *)

GmlIdEq == <<"gml:", "id", "=">>

\* the value of a token gml:id="VALUE": attr.split('=', 1)[1].strip('"')
GmlIdOf(tok) == StripOf(AfterEq(tok), {"\""})

\* the tokens of attr that start with gml:id=, in order
GmlIdTokens(attr) == SelectSeq(Split(attr), LAMBDA tok : StartsWith(tok, GmlIdEq))

\* a slip: the children are not visited
collect_gml_id_own(ns, c) ==
    IF ~c.isNode THEN {}
    ELSE {GmlIdOf(tok) : tok \in {GmlIdTokens(ns[c.id].attr)[j] :
                                     j \in 1 .. Len(GmlIdTokens(ns[c.id].attr))}}

\* a slip: a str child is tokenized like an attribute text
RECURSIVE collect_gml_id_with_text(_, _)
collect_gml_id_with_text(ns, c) ==
    IF ~c.isNode
    THEN {GmlIdOf(tok) : tok \in {GmlIdTokens(c.text)[j] :
                                     j \in 1 .. Len(GmlIdTokens(c.text))}}
    ELSE LET toks == GmlIdTokens(ns[c.id].attr)
             ch   == ns[c.id].children
         IN  {GmlIdOf(toks[j]) : j \in 1 .. Len(toks)}
             \cup UNION {collect_gml_id_with_text(ns, ch[j]) : j \in 1 .. Len(ch)}

\* collect_gml_id_recurse, of a child (a Node or a str)
RECURSIVE collect_gml_id_recurse(_, _)
collect_gml_id_recurse(ns, c) ==
    IF ~c.isNode THEN {}
    ELSE LET toks == GmlIdTokens(ns[c.id].attr)
             ch   == ns[c.id].children
         IN  {GmlIdOf(toks[j]) : j \in 1 .. Len(toks)}
             \cup UNION {collect_gml_id_recurse(ns, ch[j]) : j \in 1 .. Len(ch)}

\* Python's None, and a value that is not None
None == [some |-> FALSE, val |-> <<>>]

Some(v) == [some |-> TRUE, val |-> v]

\* get_gml_id: the first gml:id= token's value, or None
get_gml_id(ns, c) ==
    IF ~c.isNode THEN None
    ELSE LET toks == GmlIdTokens(ns[c.id].attr)
         IN  IF toks = <<>> THEN None ELSE Some(GmlIdOf(toks[1]))

\* a slip: the gml: geometry elements are not set apart
is_subfeature_any_id(ns, c) == c.isNode /\ get_gml_id(ns, c) # None

is_subfeature(ns, c) ==
    /\ c.isNode
    /\ get_gml_id(ns, c) # None
    /\ ~StartsWith(ns[c.id].name, <<"gml:">>)

\* a slip: the descendants are not looked at
contains_subfeature_shallow(ns, c) == is_subfeature(ns, c)

RECURSIVE contains_subfeature(_, _)
contains_subfeature(ns, c) ==
    IF ~c.isNode THEN FALSE
    ELSE IF is_subfeature(ns, c) THEN TRUE
    ELSE \E j \in 1 .. Len(ns[c.id].children) :
             contains_subfeature(ns, ns[c.id].children[j])

\* a slip: the children are searched from the last one back
RECURSIVE find_path_to_last(_, _, _)
find_path_to_last(ns, c, target_id) ==
    IF ~c.isNode THEN <<>>
    ELSE IF get_gml_id(ns, c) = Some(target_id) THEN <<c.id>>
    ELSE LET ch   == ns[c.id].children
             hits == {j \in 1 .. Len(ch) : find_path_to_last(ns, ch[j], target_id) # <<>>}
             last == CHOOSE j \in hits : \A h \in hits : h <= j
         IN  IF hits = {} THEN <<>>
             ELSE <<c.id>> \o find_path_to_last(ns, ch[last], target_id)

\* find_path_to: the list of Nodes from c down to the first node, in the
\* order of the loop, whose get_gml_id is target_id; <<>> is None (a path
\* that is found holds at least c)
RECURSIVE find_path_to(_, _, _), FindInChildren(_, _, _, _)
find_path_to(ns, c, target_id) ==
    IF ~c.isNode THEN <<>>
    ELSE IF get_gml_id(ns, c) = Some(target_id) THEN <<c.id>>
    ELSE LET path == FindInChildren(ns, ns[c.id].children, 1, target_id)
         IN  IF path # <<>> THEN <<c.id>> \o path ELSE <<>>

\* the for loop of find_path_to, from child j on
FindInChildren(ns, ch, j, target_id) ==
    IF j > Len(ch) THEN <<>>
    ELSE LET path == find_path_to(ns, ch[j], target_id)
         IN  IF path # <<>> THEN path
             ELSE FindInChildren(ns, ch, j + 1, target_id)

\* a slip: path_node_ids is assigned, not updated, and holds one path only
PathNodeIdsOnePath(ns, n, target_ids) ==
    LET found == {tid \in target_ids : find_path_to(ns, NodeChild(n), tid) # <<>>}
        path  == find_path_to(ns, NodeChild(n), CHOOSE tid \in found : TRUE)
    IN  IF found = {} THEN {} ELSE {path[j] : j \in 1 .. Len(path)}

\* a slip: the city object counts as found whatever the targets
PathNodeIdsWithRoot(ns, n, target_ids) == {n}

\* path_node_ids of prune_to_targets
PathNodeIds(ns, n, target_ids) ==
    UNION {{find_path_to(ns, NodeChild(n), tid)[j] :
               j \in 1 .. Len(find_path_to(ns, NodeChild(n), tid))} :
           tid \in target_ids}

\* a slip: a child on a path is kept only when it holds no feature
PruneIgnoringPaths(ns, n, path_node_ids) ==
    LET ch == ns[n].children
        Kept(c) == ~c.isNode \/ ~contains_subfeature(ns, c)
    IN  SetChildren(ns, n, SelectSeq(ch, Kept))

\* a slip: a child counts as on a path when a Node of path_node_ids reads
\* the same
RECURSIVE PruneByContent(_, _, _), PruneChildrenByContent(_, _, _, _, _)
PruneByContent(ns, n, path_node_ids) ==
    PruneChildrenByContent(ns, n, 1, <<>>, path_node_ids)

PruneChildrenByContent(ns, n, j, acc, path_node_ids) ==
    LET ch == ns[n].children
    IN  IF j > Len(ch) THEN SetChildren(ns, n, acc)
        ELSE IF ~ch[j].isNode
        THEN PruneChildrenByContent(ns, n, j + 1, Append(acc, ch[j]), path_node_ids)
        ELSE IF \E q \in path_node_ids : NodeBuild(ns, q) = NodeBuild(ns, ch[j].id)
        THEN PruneChildrenByContent(PruneByContent(ns, ch[j].id, path_node_ids), n,
                                    j + 1, Append(acc, ch[j]), path_node_ids)
        ELSE IF ~contains_subfeature(ns, ch[j])
        THEN PruneChildrenByContent(ns, n, j + 1, Append(acc, ch[j]), path_node_ids)
        ELSE PruneChildrenByContent(ns, n, j + 1, acc, path_node_ids)

\* a slip: a path Node with no child on a path (the end of the path) is
\* kept as it is
RECURSIVE PruneAboveTarget(_, _, _), PruneChildrenAboveTarget(_, _, _, _, _)
PruneAboveTarget(ns, n, path_node_ids) ==
    IF \A j \in 1 .. Len(ns[n].children) :
           ~ns[n].children[j].isNode \/ ns[n].children[j].id \notin path_node_ids
    THEN ns
    ELSE PruneChildrenAboveTarget(ns, n, 1, <<>>, path_node_ids)

PruneChildrenAboveTarget(ns, n, j, acc, path_node_ids) ==
    LET ch == ns[n].children
    IN  IF j > Len(ch) THEN SetChildren(ns, n, acc)
        ELSE IF ~ch[j].isNode
        THEN PruneChildrenAboveTarget(ns, n, j + 1, Append(acc, ch[j]), path_node_ids)
        ELSE IF ch[j].id \in path_node_ids
        THEN PruneChildrenAboveTarget(PruneAboveTarget(ns, ch[j].id, path_node_ids), n,
                                      j + 1, Append(acc, ch[j]), path_node_ids)
        ELSE IF ~contains_subfeature(ns, ch[j])
        THEN PruneChildrenAboveTarget(ns, n, j + 1, Append(acc, ch[j]), path_node_ids)
        ELSE PruneChildrenAboveTarget(ns, n, j + 1, acc, path_node_ids)

\* _prune(n) of prune_to_targets: the Node objects after the call.
\* PruneChildren is its loop from child j on, new_children so far being acc.
RECURSIVE Prune(_, _, _), PruneChildren(_, _, _, _, _)
Prune(ns, n, path_node_ids) == PruneChildren(ns, n, 1, <<>>, path_node_ids)

PruneChildren(ns, n, j, acc, path_node_ids) ==
    LET ch == ns[n].children
    IN  IF j > Len(ch) THEN SetChildren(ns, n, acc)
        ELSE IF ~ch[j].isNode
        THEN PruneChildren(ns, n, j + 1, Append(acc, ch[j]), path_node_ids)
        ELSE IF ch[j].id \in path_node_ids
        THEN PruneChildren(Prune(ns, ch[j].id, path_node_ids), n, j + 1,
                           Append(acc, ch[j]), path_node_ids)
        ELSE IF ~contains_subfeature(ns, ch[j])
        THEN PruneChildren(ns, n, j + 1, Append(acc, ch[j]), path_node_ids)
        ELSE PruneChildren(ns, n, j + 1, acc, path_node_ids)

\* a slip: path_node_ids is tested after _prune has run
prune_to_targets_late_return(ns, n, target_ids) ==
    LET path_node_ids == PathNodeIds(ns, n, target_ids)
    IN  [found |-> path_node_ids # {}, nodes |-> Prune(ns, n, path_node_ids)]

\* a slip: no early return when no target is found
prune_to_targets_no_return(ns, n, target_ids) ==
    [found |-> TRUE, nodes |-> Prune(ns, n, PathNodeIds(ns, n, target_ids))]

\* prune_to_targets: [found, nodes]
prune_to_targets(ns, n, target_ids) ==
    LET path_node_ids == PathNodeIds(ns, n, target_ids)
    IN  IF path_node_ids = {} THEN [found |-> FALSE, nodes |-> ns]
        ELSE [found |-> TRUE, nodes |-> Prune(ns, n, path_node_ids)]

----------------------------------------------------------------------------
(* The Appearance Filter (round 2).  An assert that fails, in whichever    *)
(* iteration, ends the call with AssertionError: ok is the conjunction of  *)
(* the asserts of all iterations.                                          *)

\* a slip: the number of children is not asserted
HasNodeChildFirst(ns, n) == Len(ns[n].children) >= 1 /\ ns[n].children[1].isNode

\* the asserts of Node.only_node_child and of Node.only_text_child
HasOnlyNodeChild(ns, n) == Len(ns[n].children) = 1 /\ ns[n].children[1].isNode

HasOnlyTextChild(ns, n) == Len(ns[n].children) = 1 /\ ~ns[n].children[1].isNode

only_node_child(ns, n) == ns[n].children[1].id

only_text_child(ns, n) == ns[n].children[1].text

IsNamed(ns, c, prefix, local) == c.isNode /\ ns[c.id].name = <<prefix, local>>

\* the tokens of attr that start with uri=, in order
UriTokens(attr) == SelectSeq(Split(attr), LAMBDA tok : StartsWith(tok, <<"uri", "=">>))

\* a slip: a target with neither a uri= token nor a text refers to the
\* empty id
TargetUriOrEmpty(ns, n) ==
    LET toks == UriTokens(ns[n].attr)
    IN  IF toks # <<>> THEN Some(StripOf(AfterEq(toks[1]), {"\""}))
        ELSE IF HasOnlyTextChild(ns, n) THEN Some(only_text_child(ns, n))
        ELSE Some(<<>>)

\* uri of an app:target Node n (lines 187-193): the first uri= token's value,
\* else the only text child; None when only_text_child's assert fails
TargetUri(ns, n) ==
    LET toks == UriTokens(ns[n].attr)
    IN  IF toks # <<>> THEN Some(StripOf(AfterEq(toks[1]), {"\""}))
        ELSE IF HasOnlyTextChild(ns, n) THEN Some(only_text_child(ns, n))
        ELSE None

\* a slip: the leading # is not removed
IsReferredWithHash(ns, n, referred) == TargetUri(ns, n).val \in referred

\* line 194: uri.removeprefix('#') in referred_gmlids
IsReferred(ns, n, referred) == RemovePrefixHash(TargetUri(ns, n).val) \in referred

\* a slip: the images are added whether or not a target was kept
MemberReferredAlways(ns, ch, referred) == TRUE

\* member_referred after the loop over the children ch of member2 (lines
\* 178, 194-195): some app:target child is referred
MemberReferred(ns, ch, referred) ==
    \E j \in 1 .. Len(ch) :
        IsNamed(ns, ch[j], "app:", "target") /\ IsReferred(ns, ch[j].id, referred)

\* the loop over member2.children (lines 177-202)
ScanSurfaceData(ns, member2, referred) ==
    LET ch == ns[member2].children
        isTarget(c) == IsNamed(ns, c, "app:", "target")
        isImage(c)  == IsNamed(ns, c, "app:", "imageURI")
    IN  [ok |-> \A j \in 1 .. Len(ch) :
                   /\ ch[j].isNode
                   /\ isImage(ch[j]) => HasOnlyTextChild(ns, ch[j].id)
                   /\ isTarget(ch[j]) => TargetUri(ns, ch[j].id) # None,
         new_children |->
             SelectSeq(ch, LAMBDA c : c.isNode /\
                                      (isTarget(c) => IsReferred(ns, c.id, referred))),
         member_referred |-> MemberReferred(ns, ch, referred),
         referred_images2 |->
             {only_text_child(ns, ch[j].id) :
                 j \in {h \in 1 .. Len(ch) :
                           isImage(ch[h]) /\ HasOnlyTextChild(ns, ch[h].id)}}]

\* a slip: the entries left without a target are not removed
KeepsAppearanceChildAlways(ns, m) == TRUE

\* the condition of lines 206-207 on a child m of appearance: m stays
KeepsAppearanceChild(ns, m) ==
    \/ ~m.isNode
    \/ ~IsNamed(ns, m, "app:", "surfaceDataMember")
    \/ \E j \in 1 .. Len(ns[only_node_child(ns, m.id)].children) :
           IsNamed(ns, ns[only_node_child(ns, m.id)].children[j], "app:", "target")

\* the body of "if toplevel.name == app:appearanceMember" once appearance is
\* known (lines 173-208): [ok, nodes, images]
FilterAppearance(ns, appearance, referred) ==
    LET ch        == ns[appearance].children
        isSdm(c)  == IsNamed(ns, c, "app:", "surfaceDataMember")
        sdms      == {j \in 1 .. Len(ch) : isSdm(ch[j])}
        shaped    == \A j \in 1 .. Len(ch) :
                         ch[j].isNode /\ (isSdm(ch[j]) => HasOnlyNodeChild(ns, ch[j].id))
        scan(j)   == ScanSurfaceData(ns, only_node_child(ns, ch[j].id), referred)
        member2s  == {only_node_child(ns, ch[j].id) : j \in sdms}
        ns1       == [n \in DOMAIN ns |->
                         IF n \in member2s
                         THEN [ns[n] EXCEPT !.children =
                                   ScanSurfaceData(ns, n, referred).new_children]
                         ELSE ns[n]]
    IN  IF ~(shaped /\ \A j \in sdms : scan(j).ok)
        THEN [ok |-> FALSE, nodes |-> ns, images |-> {}]
        ELSE [ok |-> TRUE,
              nodes |-> SetChildren(ns1, appearance,
                            SelectSeq(ch, LAMBDA m : KeepsAppearanceChild(ns1, m))),
              images |-> UNION {scan(j).referred_images2 :
                                   j \in {h \in sdms : scan(h).member_referred}}]

\* filter_appearance_members from toplevel j of root.children on, images
\* being referred_images so far: [ok, nodes, images]
RECURSIVE FilterMembersFrom(_, _, _, _, _)
FilterMembersFrom(ns, rt, j, images, referred) ==
    LET ch == ns[rt].children
    IN  IF j > Len(ch) THEN [ok |-> TRUE, nodes |-> ns, images |-> images]
        ELSE IF ~ch[j].isNode THEN [ok |-> FALSE, nodes |-> ns, images |-> images]
        ELSE IF ~IsNamed(ns, ch[j], "app:", "appearanceMember")
        THEN FilterMembersFrom(ns, rt, j + 1, images, referred)
        ELSE IF ~HasOnlyNodeChild(ns, ch[j].id)
        THEN [ok |-> FALSE, nodes |-> ns, images |-> images]
        ELSE IF ~IsNamed(ns, ns[ch[j].id].children[1], "app:", "Appearance")
        THEN [ok |-> FALSE, nodes |-> ns, images |-> images]
        ELSE LET r == FilterAppearance(ns, only_node_child(ns, ch[j].id), referred)
             IN  IF ~r.ok THEN r
                 ELSE FilterMembersFrom(r.nodes, rt, j + 1, images \cup r.images, referred)

filter_appearance_members(ns, rt, referred) == FilterMembersFrom(ns, rt, 1, {}, referred)

----------------------------------------------------------------------------
(* The inputs: documents put together from a palette of top-level children *)
(* of core:CityModel, and a few documents of other shapes.                 *)

\* a cityObjectMember: Building B1 with a geometry G1 (no feature), a part P1
\* holding a part P3, a part P2, text between them, and an appearance of
\* its own whose target refers to P2
FragBuilding ==
    <<"<", "core:", "cityObjectMember", ">", "\n", "<", "bldg:", "Building",
      " ", "gml:", "id", "=", "\"", "B1", "\"", ">", "\n", "x", "<", "bldg:",
      "lod2Solid", ">", "<", "gml:", "Solid", " ", "gml:", "id", "=", "\"",
      "G1", "\"", "/", ">", "<", "/", "bldg:", "lod2Solid", ">", "<",
      "bldg:", "consistsOfBuildingPart", ">", "<", "bldg:", "BuildingPart",
      " ", "gml:", "id", "=", "\"", "P1", "\"", ">", "<", "bldg:",
      "consistsOfBuildingPart", ">", "<", "bldg:", "BuildingPart", " ",
      "gml:", "id", "=", "\"", "P3", "\"", "/", ">", "<", "/", "bldg:",
      "consistsOfBuildingPart", ">", "<", "/", "bldg:", "BuildingPart", ">",
      "<", "/", "bldg:", "consistsOfBuildingPart", ">", "y", "<", "bldg:",
      "consistsOfBuildingPart", ">", "<", "bldg:", "BuildingPart", " ",
      "gml:", "id", "=", "\"", "P2", "\"", "/", ">", "<", "/", "bldg:",
      "consistsOfBuildingPart", ">", "<", "app:", "appearance", ">", "<",
      "app:", "Appearance", ">", "<", "app:", "surfaceDataMember", ">", "<",
      "app:", "X3DMaterial", ">", "<", "app:", "target", ">", "#", "P2", "<",
      "/", "app:", "target", ">", "<", "/", "app:", "X3DMaterial", ">", "<",
      "/", "app:", "surfaceDataMember", ">", "<", "/", "app:", "Appearance",
      ">", "<", "/", "app:", "appearance", ">", "<", "/", "bldg:",
      "Building", ">", "\n", "<", "/", "core:", "cityObjectMember", ">">>

\* a cityObjectMember whose city object has no gml:id and holds the id P1 twice
FragRoad ==
    <<"<", "core:", "cityObjectMember", ">", "<", "tran:", "Road", ">", "<",
      "tran:", "part", ">", "<", "bldg:", "BuildingPart", " ", "gml:", "id",
      "=", "\"", "P1", "\"", "/", ">", "<", "/", "tran:", "part", ">", "<",
      "tran:", "part", ">", "<", "bldg:", "BuildingPart", " ", "gml:", "id",
      "=", "\"", "P1", "\"", "/", ">", "<", "/", "tran:", "part", ">", "<",
      "/", "tran:", "Road", ">", "<", "/", "core:", "cityObjectMember", ">">>

\* an appearanceMember: a texture T1 (image i1.png, targets #P1 and #P2 by
\* uri=) and a material (image i2.png, target #P2 as text)
FragAppearance ==
    <<"<", "app:", "appearanceMember", ">", "<", "app:", "Appearance", ">",
      "<", "app:", "theme", ">", "rgb", "<", "/", "app:", "theme", ">", "<",
      "app:", "surfaceDataMember", ">", "<", "app:", "ParameterizedTexture",
      " ", "gml:", "id", "=", "\"", "T1", "\"", ">", "<", "app:", "imageURI",
      ">", "i1.png", "<", "/", "app:", "imageURI", ">", "<", "app:",
      "target", " ", "uri", "=", "\"", "#", "P1", "\"", "/", ">", "<",
      "app:", "target", " ", "uri", "=", "\"", "#", "P2", "\"", ">", "<",
      "app:", "TexCoordList", "/", ">", "<", "/", "app:", "target", ">", "<",
      "/", "app:", "ParameterizedTexture", ">", "<", "/", "app:",
      "surfaceDataMember", ">", "<", "app:", "surfaceDataMember", ">", "<",
      "app:", "X3DMaterial", ">", "<", "app:", "imageURI", ">", "i2.png",
      "<", "/", "app:", "imageURI", ">", "<", "app:", "target", ">", "#",
      "P2", "<", "/", "app:", "target", ">", "<", "/", "app:", "X3DMaterial",
      ">", "<", "/", "app:", "surfaceDataMember", ">", "<", "/", "app:",
      "Appearance", ">", "<", "/", "app:", "appearanceMember", ">">>

\* a top-level child that is neither a member nor an appearance
FragName ==
    <<"<", "gml:", "name", ">", "city", "<", "/", "gml:", "name", ">">>

\* a self-closing element whose attribute text is one more slash
FragSlash ==
    <<"<", "gen:", "flag", " ", "/", "/", ">">>

\* a cityObjectMember with no child
FragEmptyMember ==
    <<"<", "core:", "cityObjectMember", "/", ">">>

\* an appearanceMember whose surfaceDataMember has no child
FragBadSurface ==
    <<"<", "app:", "appearanceMember", ">", "<", "app:", "Appearance", ">",
      "<", "app:", "surfaceDataMember", "/", ">", "<", "/", "app:",
      "Appearance", ">", "<", "/", "app:", "appearanceMember", ">">>

\* a member that carries a gml:id itself, around a city object P2
FragMemberId ==
    <<"<", "core:", "cityObjectMember", " ", "gml:", "id", "=", "\"", "M1",
      "\"", ">", "<", "tran:", "Road", " ", "gml:", "id", "=", "\"", "P2",
      "\"", "/", ">", "<", "/", "core:", "cityObjectMember", ">">>

\* a member whose only child is text; a member with two city objects
FragTextMember ==
    <<"<", "core:", "cityObjectMember", ">", "city", "<", "/", "core:",
      "cityObjectMember", ">">>

FragTwoObjects ==
    <<"<", "core:", "cityObjectMember", ">", "<", "tran:", "Road", " ", "gml:",
      "id", "=", "\"", "P1", "\"", "/", ">", "<", "tran:", "Road", " ", "gml:",
      "id", "=", "\"", "P2", "\"", "/", ">", "<", "/", "core:",
      "cityObjectMember", ">">>

\* a member whose city object is closed by a tag of another name
FragBadClose ==
    <<"<", "core:", "cityObjectMember", ">", "<", "tran:", "Road", ">", "<",
      "/", "tran:", "Rail", ">", "<", "/", "core:", "cityObjectMember", ">">>

\* a member whose city object has text before and after a part: when the
\* part is pruned the two texts stand next to each other
FragMixed ==
    <<"<", "core:", "cityObjectMember", ">", "<", "bldg:", "Building", " ",
      "gml:", "id", "=", "\"", "B1", "\"", ">", "x", "<", "bldg:",
      "consistsOfBuildingPart", ">", "<", "bldg:", "BuildingPart", " ",
      "gml:", "id", "=", "\"", "P1", "\"", "/", ">", "<", "/", "bldg:",
      "consistsOfBuildingPart", ">", "y", "<", "bldg:",
      "consistsOfBuildingPart", ">", "<", "bldg:", "BuildingPart", " ",
      "gml:", "id", "=", "\"", "P2", "\"", "/", ">", "<", "/", "bldg:",
      "consistsOfBuildingPart", ">", "<", "/", "bldg:", "Building", ">", "<",
      "/", "core:", "cityObjectMember", ">">>

\* a member whose city object has a token before its gml:id, a second
\* gml:id token, and a text child that reads like a gml:id token
FragIdText ==
    <<"<", "core:", "cityObjectMember", ">", "<", "tran:", "Road", " ",
      "class", "=", "\"", "1", "\"", " ", "gml:", "id", "=", "\"", "P2", "\"",
      "\n", "gml:", "id", "=", "\"", "Q9", "\"", ">", "<", "gml:", "name", ">",
      "gml:", "id", "=", "\"", "P3", "\"", "<", "/", "gml:", "name", ">", "<",
      "/", "tran:", "Road", ">", "<", "/", "core:", "cityObjectMember", ">">>

\* a member whose city object holds the same geometry twice and the same
\* part twice
FragTwins ==
    <<"<", "core:", "cityObjectMember", ">", "<", "bldg:", "Building", ">",
      "<", "bldg:", "lod2Solid", ">", "<", "gml:", "Solid", " ", "gml:", "id",
      "=", "\"", "G1", "\"", "/", ">", "<", "/", "bldg:", "lod2Solid", ">",
      "<", "bldg:", "lod2Solid", ">", "<", "gml:", "Solid", " ", "gml:", "id",
      "=", "\"", "G1", "\"", "/", ">", "<", "/", "bldg:", "lod2Solid", ">",
      "<", "bldg:", "consistsOfBuildingPart", ">", "<", "bldg:",
      "BuildingPart", " ", "gml:", "id", "=", "\"", "P3", "\"", "/", ">", "<",
      "/", "bldg:", "consistsOfBuildingPart", ">", "<", "bldg:",
      "consistsOfBuildingPart", ">", "<", "bldg:", "BuildingPart", " ",
      "gml:", "id", "=", "\"", "P3", "\"", "/", ">", "<", "/", "bldg:",
      "consistsOfBuildingPart", ">", "<", "/", "bldg:", "Building", ">", "<",
      "/", "core:", "cityObjectMember", ">">>

\* appearanceMembers of shapes round 2 does not accept: the child is not an
\* app:Appearance; the child is text; the app:Appearance has a text child;
\* the child of a surfaceDataMember has a text child; an app:target has
\* neither a uri= token nor a child
FragBadMember ==
    <<"<", "app:", "appearanceMember", ">", "<", "app:", "theme", "/", ">",
      "<", "/", "app:", "appearanceMember", ">">>

FragTextAppearance ==
    <<"<", "app:", "appearanceMember", ">", "rgb", "<", "/", "app:",
      "appearanceMember", ">">>

FragAppearanceText ==
    <<"<", "app:", "appearanceMember", ">", "<", "app:", "Appearance", ">",
      "rgb", "<", "/", "app:", "Appearance", ">", "<", "/", "app:",
      "appearanceMember", ">">>

FragSurfaceText ==
    <<"<", "app:", "appearanceMember", ">", "<", "app:", "Appearance", ">",
      "<", "app:", "surfaceDataMember", ">", "<", "app:", "X3DMaterial", ">",
      "<", "app:", "target", ">", "#", "P1", "<", "/", "app:", "target", ">",
      "rgb", "<", "/", "app:", "X3DMaterial", ">", "<", "/", "app:",
      "surfaceDataMember", ">", "<", "/", "app:", "Appearance", ">", "<", "/",
      "app:", "appearanceMember", ">">>

FragBareTarget ==
    <<"<", "app:", "appearanceMember", ">", "<", "app:", "Appearance", ">",
      "<", "app:", "surfaceDataMember", ">", "<", "app:", "X3DMaterial", ">",
      "<", "app:", "target", "/", ">", "<", "/", "app:", "X3DMaterial", ">",
      "<", "/", "app:", "surfaceDataMember", ">", "<", "/", "app:",
      "Appearance", ">", "<", "/", "app:", "appearanceMember", ">">>

Palette == {FragBuilding, FragRoad, FragAppearance, FragName}

\* the most top-level children a palette document has
MaxTop == 2

\* the most ids a target set has
MaxTargets == 2

RECURSIVE Concat(_)
Concat(ss) == IF ss = <<>> THEN <<>> ELSE Head(ss) \o Concat(Tail(ss))

OpenCityModel == <<"<", "core:", "CityModel", ">">>

CloseCityModel == <<"<", "/", "core:", "CityModel", ">">>

XmlDecl == <<"<", "?", "xml", " ", "version", "=", "\"", "1.0", "\"", "?", ">">>

PaletteDocs ==
    {OpenCityModel \o Concat(fs) \o CloseCityModel :
        fs \in UNION {[1 .. n -> Palette] : n \in 0 .. MaxTop}}

CityModel(body) == OpenCityModel \o body \o CloseCityModel

\* documents of other shapes: a declaration, a BOM and blanks before the
\* root; another root tag; the root left open; a closing tag of another
\* name; text where the root should start; the input ending inside text;
\* text as a child of the root; an attribute text that is a slash; a
\* member without a child, last and first; a surfaceDataMember without a
\* child; a member that carries an id; no content; a declaration and
\* nothing else; a closing tag of another name inside a member; a member
\* with a text child; a member with two children; text on both sides of a
\* part; a second gml:id token and a text that reads like one; children
\* that are equal in content; appearanceMembers of other shapes after a
\* member that is pruned
OddDocs ==
    { <<"\n", "BOM">> \o XmlDecl \o <<"\n">> \o CityModel(FragRoad) \o <<"\n">>,
      <<"<", "gml:", "name", ">">> \o FragRoad \o <<"<", "/", "gml:", "name", ">">>,
      OpenCityModel \o FragRoad,
      OpenCityModel \o <<"<", "/", "core:", "cityObjectMember", ">">>,
      <<"city">> \o CityModel(<<>>),
      OpenCityModel \o <<"city">>,
      CityModel(FragName \o <<"city">>),
      CityModel(FragRoad \o FragSlash),
      CityModel(FragRoad \o FragEmptyMember),
      CityModel(FragEmptyMember \o FragRoad),
      CityModel(FragBuilding \o FragBadSurface),
      CityModel(FragMemberId \o FragAppearance),
      <<>>,
      XmlDecl \o <<"\n">>,
      CityModel(FragRoad \o FragBadClose),
      CityModel(FragName \o FragTextMember),
      CityModel(FragRoad \o FragTwoObjects \o FragAppearance),
      CityModel(FragMixed),
      CityModel(FragIdText \o FragAppearance),
      CityModel(FragTwins),
      CityModel(FragRoad \o FragBadMember),
      CityModel(FragRoad \o FragTextAppearance),
      CityModel(FragRoad \o FragAppearanceText),
      CityModel(FragRoad \o FragSurfaceText),
      CityModel(FragRoad \o FragAppearance \o FragBareTarget) }

Docs == PaletteDocs \cup OddDocs

TargetIds == {<<"B1">>, <<"P1">>, <<"P2">>, <<"P3">>, <<"G1">>, <<"T1">>}

TargetSets == {S \in SUBSET TargetIds : Cardinality(S) <= MaxTargets}

----------------------------------------------------------------------------
(* filter_gml_content, step by step.                                       *)

NoResult == [bytes |-> <<>>, images |-> {}, ids |-> {}]

Init ==
    /\ content \in Docs
    /\ gml_ids \in TargetSets
    /\ pc = "call"
    /\ header = <<>>
    /\ nodes = <<>>
    /\ root = 0
    /\ k = 0
    /\ new_toplevels = <<>>
    /\ referred_gmlids = {}
    /\ referred_images = {}
    /\ out = <<>>
    /\ parsed = <<>>
    /\ call = 1
    /\ first = NoResult

\* lines 217-226: parse, then the assert on the root tag (root.name of a
\* None root raises AttributeError)
Parse ==
    /\ pc = "call"
    /\ \E xml \in {XmlInit(content)} :
           /\ pc' = IF xml.st = "hang" THEN "hang"
                    ELSE IF xml.st = "raise" \/ xml.root = 0 THEN "raised"
                    ELSE IF xml.nodes[xml.root].name # <<"core:", "CityModel">>
                    THEN "raised"
                    ELSE "round1"
           /\ header' = xml.header
           /\ nodes' = xml.nodes
           /\ parsed' = xml.nodes
           /\ root' = xml.root
    /\ k' = 0
    /\ new_toplevels' = <<>>
    /\ referred_gmlids' = {}
    /\ UNCHANGED <<content, gml_ids, referred_images, out, call, first>>

\* a slip: the Pruner is run before the city object's own id is looked at
Round1BodyPruneFirst(ns, toplevel, target_ids) ==
    IF ~toplevel.isNode THEN [st |-> "raise", nodes |-> ns, kept |-> FALSE]
    ELSE IF ns[toplevel.id].name # <<"core:", "cityObjectMember">>
    THEN [st |-> "pass", nodes |-> ns, kept |-> TRUE]
    ELSE IF ~HasOnlyNodeChild(ns, toplevel.id)
    THEN [st |-> "raise", nodes |-> ns, kept |-> FALSE]
    ELSE LET cityobject == NodeChild(only_node_child(ns, toplevel.id))
             top_id     == get_gml_id(ns, cityobject)
             pruned     == prune_to_targets(ns, cityobject.id, target_ids)
         IN  [st |-> "member", nodes |-> pruned.nodes,
              kept |-> pruned.found \/ (top_id.some /\ top_id.val \in target_ids)]

\* one iteration of the loop of lines 227-244, on root.children[k]:
\* [st, nodes, kept].  prune_to_targets works on the Nodes in place: what
\* it has done to them stays, whatever it returns.
Round1Body(ns, toplevel, target_ids) ==
    IF ~toplevel.isNode THEN [st |-> "raise", nodes |-> ns, kept |-> FALSE]
    ELSE IF ns[toplevel.id].name # <<"core:", "cityObjectMember">>
    THEN [st |-> "pass", nodes |-> ns, kept |-> TRUE]
    ELSE IF ~HasOnlyNodeChild(ns, toplevel.id)
    THEN [st |-> "raise", nodes |-> ns, kept |-> FALSE]
    ELSE LET cityobject == NodeChild(only_node_child(ns, toplevel.id))
             top_id     == get_gml_id(ns, cityobject)
             pruned     == prune_to_targets(ns, cityobject.id, target_ids)
         IN  IF top_id.some /\ top_id.val \in target_ids
             THEN [st |-> "member", nodes |-> ns, kept |-> TRUE]
             ELSE [st |-> "member", nodes |-> pruned.nodes, kept |-> pruned.found]

Round1Step ==
    /\ pc = "round1"
    /\ k < Len(nodes[root].children)
    /\ \E toplevel \in {nodes[root].children[k + 1]} :
        \E r \in {Round1Body(nodes, toplevel, gml_ids)} :
           /\ pc' = IF r.st = "raise" THEN "raised" ELSE "round1"
           /\ nodes' = r.nodes
           /\ new_toplevels' = IF r.kept THEN Append(new_toplevels, toplevel)
                               ELSE new_toplevels
           /\ referred_gmlids' =
                 IF r.st = "member" /\ r.kept
                 THEN referred_gmlids \cup
                      collect_gml_id_recurse(r.nodes,
                          NodeChild(only_node_child(r.nodes, toplevel.id)))
                 ELSE referred_gmlids
    /\ k' = k + 1
    /\ UNCHANGED <<content, gml_ids, header, root, referred_images, out, parsed,
                   call, first>>

\* a slip: only the members are put back
Round1EndMembersOnly ==
    /\ pc = "round1"
    /\ k = Len(nodes[root].children)
    /\ nodes' = SetChildren(nodes, root,
                   SelectSeq(new_toplevels,
                             LAMBDA c : nodes[c.id].name = <<"core:", "cityObjectMember">>))
    /\ pc' = "round2"
    /\ UNCHANGED <<content, gml_ids, header, root, k, new_toplevels, referred_gmlids,
                   referred_images, out, parsed, call, first>>

\* line 245, after the loop
Round1End ==
    /\ pc = "round1"
    /\ k = Len(nodes[root].children)
    /\ nodes' = SetChildren(nodes, root, new_toplevels)
    /\ pc' = "round2"
    /\ UNCHANGED <<content, gml_ids, header, root, k, new_toplevels, referred_gmlids,
                   referred_images, out, parsed, call, first>>

\* line 250
Round2 ==
    /\ pc = "round2"
    /\ \E r \in {filter_appearance_members(nodes, root, referred_gmlids)} :
           /\ pc' = IF r.ok THEN "build" ELSE "raised"
           /\ nodes' = r.nodes
           /\ referred_images' = r.images
    /\ UNCHANGED <<content, gml_ids, header, root, k, new_toplevels, referred_gmlids,
                   out, parsed, call, first>>

\* line 252
Return ==
    /\ pc = "build"
    /\ out' = XmlBuild(header, nodes, root)
    /\ pc' = "done"
    /\ UNCHANGED <<content, gml_ids, header, nodes, root, k, new_toplevels,
                   referred_gmlids, referred_images, parsed, call, first>>

Next == Parse \/ Round1Step \/ Round1End \/ Round2 \/ Return

Spec == Init /\ [][Next]_vars

\* the text the first call returned is filtered again, with the same gml_ids
Again ==
    /\ pc = "done"
    /\ call = 1
    /\ call' = 2
    /\ first' = [bytes |-> out, images |-> referred_images,
                 ids |-> collect_gml_id_recurse(nodes, NodeChild(root))]
    /\ content' = out
    /\ pc' = "call"
    /\ header' = <<>>
    /\ nodes' = <<>>
    /\ root' = 0
    /\ k' = 0
    /\ new_toplevels' = <<>>
    /\ referred_gmlids' = {}
    /\ referred_images' = {}
    /\ out' = <<>>
    /\ parsed' = <<>>
    /\ UNCHANGED gml_ids

NextAgain == Next \/ Again

SpecAgain == Init /\ [][NextAgain]_vars

\* a second call with the same content and the same gml_ids: everything a
\* call works on is local to it or made by it (the Xml object, its Nodes,
\* the sets and lists of lines 221-225), so it starts from the state of Init
Repeat ==
    /\ pc = "done"
    /\ call = 1
    /\ call' = 2
    /\ first' = [bytes |-> out, images |-> referred_images,
                 ids |-> collect_gml_id_recurse(nodes, NodeChild(root))]
    /\ pc' = "call"
    /\ header' = <<>>
    /\ nodes' = <<>>
    /\ root' = 0
    /\ k' = 0
    /\ new_toplevels' = <<>>
    /\ referred_gmlids' = {}
    /\ referred_images' = {}
    /\ out' = <<>>
    /\ parsed' = <<>>
    /\ UNCHANGED <<content, gml_ids>>

NextRepeat == Next \/ Repeat

SpecRepeat == Init /\ [][NextRepeat]_vars

\* a second call with the same content and a target set that holds the
\* first call's and more; first keeps what the first call returned, the
\* Nodes it left under the root and its referred_gmlids.  A call names its
\* Nodes in the order in which Xml() makes them, which depends on the
\* content only: the same number is the same element of the document.
Widen ==
    /\ pc = "done"
    /\ call = 1
    /\ call' = 2
    /\ first' = [bytes |-> out, images |-> referred_images,
                 ids |-> collect_gml_id_recurse(nodes, NodeChild(root)),
                 referred |-> referred_gmlids,
                 kept |-> [n \in DOMAIN nodes |-> nodes[n].children]]
    /\ gml_ids' \in {S \in TargetSets : gml_ids \subseteq S /\ S # gml_ids}
    /\ pc' = "call"
    /\ header' = <<>>
    /\ nodes' = <<>>
    /\ root' = 0
    /\ k' = 0
    /\ new_toplevels' = <<>>
    /\ referred_gmlids' = {}
    /\ referred_images' = {}
    /\ out' = <<>>
    /\ parsed' = <<>>
    /\ UNCHANGED content

NextWiden == Next \/ Widen

SpecWiden == Init /\ [][NextWiden]_vars

----------------------------------------------------------------------------
(* The Parser and the Serializer on their own: Xml(text), then build() of  *)
(* the object, then Xml() of the text build() returned, and build() again. *)

\* Xml(text): the constructor returns an object (whose root may be None),
\* raises, or never returns
XmlCall ==
    /\ pc = "call"
    /\ \E xml \in {XmlInit(content)} :
           /\ pc' = IF xml.st = "hang" THEN "hang"
                    ELSE IF xml.st = "raise" THEN "raised"
                    ELSE "parsed"
           /\ header' = xml.header
           /\ nodes' = xml.nodes
           /\ parsed' = xml.nodes
           /\ root' = xml.root
    /\ UNCHANGED <<content, gml_ids, k, new_toplevels, referred_gmlids,
                   referred_images, out, call, first>>

\* xml.build(): self.root.build() of a None root raises AttributeError
XmlBuildCall ==
    /\ pc = "parsed"
    /\ pc' = IF root = 0 THEN "raised" ELSE "built"
    /\ out' = IF root = 0 THEN out ELSE XmlBuild(header, nodes, root)
    /\ UNCHANGED <<content, gml_ids, header, nodes, root, k, new_toplevels,
                   referred_gmlids, referred_images, parsed, call, first>>

\* the text build() returned is given to Xml() again
XmlAgain ==
    /\ pc = "built"
    /\ call = 1
    /\ call' = 2
    /\ first' = [bytes |-> out, images |-> {},
                 ids |-> collect_gml_id_recurse(nodes, NodeChild(root))]
    /\ content' = out
    /\ pc' = "call"
    /\ header' = <<>>
    /\ nodes' = <<>>
    /\ root' = 0
    /\ out' = <<>>
    /\ parsed' = <<>>
    /\ UNCHANGED <<gml_ids, k, new_toplevels, referred_gmlids, referred_images>>

NextXml == XmlCall \/ XmlBuildCall \/ XmlAgain

\* Xml() takes the text only: there are no target ids
InitXml ==
    /\ content \in Docs
    /\ gml_ids = {}
    /\ pc = "call"
    /\ header = <<>>
    /\ nodes = <<>>
    /\ root = 0
    /\ k = 0
    /\ new_toplevels = <<>>
    /\ referred_gmlids = {}
    /\ referred_images = {}
    /\ out = <<>>
    /\ parsed = <<>>
    /\ call = 1
    /\ first = NoResult

SpecXml == InitXml /\ [][NextXml]_vars

----------------------------------------------------------------------------
(* What the properties speak of.                                           *)

\* the Nodes of the subtree of Node n, n included
RECURSIVE Reach(_, _)
Reach(ns, n) ==
    {n} \cup UNION {Reach(ns, ns[n].children[j].id) :
                       j \in {h \in 1 .. Len(ns[n].children) : ns[n].children[h].isNode}}

Range(seq) == {seq[j] : j \in 1 .. Len(seq)}

\* the Nodes among the children of n
ElementChildren(ns, n) == {c.id : c \in {d \in Range(ns[n].children) : d.isNode}}

\* the gml:id values element n carries
CarriedIds(ns, n) == {GmlIdOf(tok) : tok \in Range(GmlIdTokens(ns[n].attr))}

\* the gml:id values carried in the subtree of n
IdsUnder(ns, n) == UNION {CarriedIds(ns, d) : d \in Reach(ns, n)}

\* a feature node: it carries a gml:id and its tag does not start with gml:
IsFeatureNode(ns, n) == CarriedIds(ns, n) # {} /\ ns[n].name[1] # "gml:"

HasFeature(ns, n) == \E d \in Reach(ns, n) : IsFeatureNode(ns, d)

Named(ns, S, prefix, local) == {n \in S : ns[n].name = <<prefix, local>>}

\* the core:cityObjectMember children of the root, and a member's city object
Members(ns) == Named(ns, ElementChildren(ns, root), "core:", "cityObjectMember")

CityObject(ns, m) == ns[m].children[1].id

\* the app:surfaceDataMember entries round 2 scans: the children of the
\* app:Appearance of a top-level app:appearanceMember; the single child of
\* an entry; the app:target children of that child, and their references
ScannedEntries(ns) ==
    UNION {Named(ns, ElementChildren(ns, ns[a].children[1].id),
                 "app:", "surfaceDataMember") :
           a \in Named(ns, ElementChildren(ns, root), "app:", "appearanceMember")}

SurfaceData(ns, e) == ns[e].children[1].id

TargetsOf(ns, e) == Named(ns, ElementChildren(ns, SurfaceData(ns, e)), "app:", "target")

ScannedTargets(ns) == UNION {TargetsOf(ns, e) : e \in ScannedEntries(ns)}

RefOf(ns, n) == RemovePrefixHash(TargetUri(ns, n).val)

Round2Returns == pc = "round2" /\ pc' = "build"

----------------------------------------------------------------------------
(* C1.  As stated: for every call that returns and every target id t that  *)
(* some element of the input carries, wherever it is, the returned         *)
(* document has an element carrying t.  It fails for an id carried in the  *)
(* appearance region (the texture T1 goes with its surfaceDataMember when  *)
(* none of its targets is referred).                                       *)
C1_CoverageAnywhere ==
    pc = "done" =>
        \A t \in gml_ids :
            t \in IdsUnder(parsed, root) => t \in IdsUnder(nodes, root)

\* C1, amended: for every call that returns and every target id t carried
\* by the city object of a core:cityObjectMember of the root or by a
\* descendant of it, the returned document has an element carrying t.
C1_CoverageInCityObjects ==
    pc = "done" =>
        \A t \in gml_ids :
            (\E m \in Members(parsed) : t \in IdsUnder(parsed, CityObject(parsed, m)))
                => t \in IdsUnder(nodes, root)

\* two targets nested in a member that is not targeted itself, both carried
\* by the output, while the pruning has removed other ids of the member
C1_Witness ==
    /\ pc = "done"
    /\ Cardinality(gml_ids) = 2
    /\ \E m \in Members(parsed) :
          /\ ~get_gml_id(parsed, NodeChild(CityObject(parsed, m))).val \in gml_ids
          /\ gml_ids \subseteq IdsUnder(parsed, CityObject(parsed, m))
          /\ gml_ids \subseteq IdsUnder(nodes, root)
          /\ IdsUnder(nodes, root) # IdsUnder(parsed, root)

----------------------------------------------------------------------------
(* C2.  As stated: after the call every app:target element left in the     *)
(* output refers (uri= attribute, else text, one leading # removed) to a   *)
(* gml:id some element of the output carries, and every app:target round 2 *)
(* removed referred to an id outside referred-ids.  Round 2 scans only the *)
(* entries of the top-level app:appearanceMember children: an app:target   *)
(* of an appearance inside a city object stays when the pruning removes    *)
(* the part it refers to.                                                  *)
C2_EveryTargetConsistent ==
    [][Round2Returns =>
          /\ \A n \in Named(nodes', Reach(nodes', root), "app:", "target") :
                /\ TargetUri(nodes', n) # None
                /\ RefOf(nodes', n) \in IdsUnder(nodes', root)
          /\ \A n \in Named(nodes, Reach(nodes, root), "app:", "target")
                         \ Reach(nodes', root) :
                RefOf(nodes, n) \notin referred_gmlids]_vars

\* C2, amended: after the call every app:target left in an entry that
\* round 2 scans (an app:surfaceDataMember of the app:Appearance of a
\* top-level app:appearanceMember) refers to a gml:id some element of the
\* output carries, and every app:target round 2 removed referred to an id
\* outside referred-ids.
C2_ScannedTargetsConsistent ==
    [][Round2Returns =>
          /\ \A n \in ScannedTargets(nodes) \cap Reach(nodes', root) :
                RefOf(nodes', n) \in IdsUnder(nodes', root)
          /\ \A n \in Named(nodes, Reach(nodes, root), "app:", "target")
                         \ Reach(nodes', root) :
                RefOf(nodes, n) \notin referred_gmlids]_vars

\* round 2 has kept a target of an entry and removed another one
C2_Witness ==
    /\ pc = "build"
    /\ ScannedTargets(parsed) \cap Reach(nodes, root) # {}
    /\ \E e \in ScannedEntries(nodes) : TargetsOf(parsed, e) \ Reach(nodes, root) # {}

----------------------------------------------------------------------------
(* C3.  The set round 2 returns is exactly the set of the app:imageURI     *)
(* texts of the scanned entries that kept at least one app:target: no      *)
(* image of an entry that lost all its targets, every image of an entry    *)
(* that kept one.                                                          *)
ImagesOf(ns, e) ==
    {ns[n].children[1].text :
        n \in Named(ns, ElementChildren(ns, SurfaceData(ns, e)), "app:", "imageURI")}

C3_ReferredImagesExact ==
    [][Round2Returns =>
          referred_images' =
              UNION {ImagesOf(nodes, e) :
                        e \in {d \in ScannedEntries(nodes) :
                                  TargetsOf(nodes', d) # {}}}]_vars

\* Scenario B: an entry kept one of its two targets and its image is
\* returned; another entry lost its only target and its image is not
C3_Witness ==
    /\ pc = "build"
    /\ \E e \in ScannedEntries(nodes) :
          /\ Cardinality(TargetsOf(parsed, e)) = 2
          /\ Cardinality(TargetsOf(nodes, e)) = 1
          /\ ImagesOf(nodes, e) # {}
          /\ ImagesOf(nodes, e) \subseteq referred_images
    /\ \E e \in ScannedEntries(parsed) \ ScannedEntries(nodes) :
          /\ ImagesOf(parsed, e) # {}
          /\ ImagesOf(parsed, e) \cap referred_images = {}

----------------------------------------------------------------------------
----------------------------------------------------------------------------
(* Round 1's step on the member at position k when prune_to_targets is     *)
(* called: the member has one Node child and that child's own id is not a  *)
(* target.                                                                 *)
Toplevel == nodes[root].children[k + 1]

PrunerCalled ==
    /\ pc = "round1"
    /\ pc' = "round1"
    /\ k' = k + 1
    /\ IsNamed(nodes, Toplevel, "core:", "cityObjectMember")
    /\ ~(get_gml_id(nodes, NodeChild(CityObject(nodes, Toplevel.id))).val \in gml_ids)

\* the members of the input that the Pruner has been called on without
\* raising since, and the keep-path set of that call
Pruned(m) ==
    /\ NodeChild(m) \in Range(SubSeq(parsed[root].children, 1, k))
    /\ ~(get_gml_id(parsed, NodeChild(CityObject(parsed, m))).val \in gml_ids)

KeepPath(m) == PathNodeIds(parsed, CityObject(parsed, m), gml_ids)

AfterRound1 == pc \in {"round2", "build", "done"}

----------------------------------------------------------------------------
(* C5.  Pruning never removes a node on a found path: for every target id  *)
(* for which find_path_to returns a path in the city-object subtree, each  *)
(* node of the path is, after prune_to_targets, still a child of the node  *)
(* before it on the path (the first one of the member), for any number of  *)
(* targets and any nesting of the paths.                                   *)
C5_PathNodesStay ==
    [][PrunerCalled =>
          \A tid \in gml_ids :
              LET path == find_path_to(nodes, NodeChild(CityObject(nodes, Toplevel.id)), tid)
              IN  path # <<>> =>
                     /\ NodeChild(path[1]) \in Range(nodes'[Toplevel.id].children)
                     /\ \A j \in 2 .. Len(path) :
                            NodeChild(path[j]) \in Range(nodes'[path[j - 1]].children)]_vars

\* a member pruned for two targets, the path of one going through the other
\* and on below it, with something pruned away
C5_Witness ==
    /\ pc = "round1"
    /\ \E m \in Members(parsed) :
          /\ Pruned(m)
          /\ nodes # parsed
          /\ \E t1, t2 \in gml_ids :
                LET p1 == find_path_to(parsed, NodeChild(CityObject(parsed, m)), t1)
                    p2 == find_path_to(parsed, NodeChild(CityObject(parsed, m)), t2)
                IN  /\ p1 # <<>>
                    /\ Len(p2) > Len(p1)
                    /\ SubSeq(p2, 1, Len(p1)) = p1
                    /\ Range(p2) \subseteq Reach(nodes, m)

----------------------------------------------------------------------------
(* C6.  A branch with no feature node in it is left as it was: every       *)
(* element child of a keep-path node whose subtree holds no feature node   *)
(* is, after the pruning, still a child of that node, and no node of its   *)
(* subtree has changed, whether or not a target id is in it.               *)
C6_FeaturelessBranchUntouched ==
    [][PrunerCalled =>
          \A p \in PathNodeIds(nodes, CityObject(nodes, Toplevel.id), gml_ids) :
              \A c \in ElementChildren(nodes, p) :
                  ~HasFeature(nodes, c) =>
                      /\ NodeChild(c) \in Range(nodes'[p].children)
                      /\ \A d \in Reach(nodes, c) : nodes'[d] = nodes[d]]_vars

\* a pruned member in which a featureless branch holds a target (the
\* geometry G1) and another one holds none, both still there
C6_Witness ==
    /\ pc = "round1"
    /\ \E m \in Members(parsed) :
          /\ Pruned(m)
          /\ nodes # parsed
          /\ \E c1, c2 \in ElementChildren(nodes, CityObject(parsed, m)) :
                /\ ~HasFeature(parsed, c1) /\ IdsUnder(parsed, c1) \cap gml_ids # {}
                /\ ~HasFeature(parsed, c2) /\ IdsUnder(parsed, c2) \cap gml_ids = {}

----------------------------------------------------------------------------
(* C7.  In a member the Pruner retained, every element child of a          *)
(* keep-path node that is not in the keep-path set itself and whose        *)
(* subtree holds a feature node is absent from the output.                 *)
C7_UnrelatedFeatureRemoved ==
    pc = "done" =>
        \A m \in Members(parsed) :
            Pruned(m) =>
                \A p \in KeepPath(m) :
                    \A c \in ElementChildren(parsed, p) \ KeepPath(m) :
                        HasFeature(parsed, c) => c \notin Reach(nodes, root)

\* the output holds a member the Pruner retained and took a feature
\* subtree out of
C7_Witness ==
    /\ pc = "done"
    /\ \E m \in Members(nodes) :
          /\ Pruned(m)
          /\ \E p \in KeepPath(m) :
                \E c \in ElementChildren(parsed, p) \ KeepPath(m) : HasFeature(parsed, c)

----------------------------------------------------------------------------
(* C8.  After round 1 every core:cityObjectMember left under the root      *)
(* holds a node whose own gml:id is a target: its city object, or a        *)
(* descendant of it (the end of a found path).  Conversely every member of *)
(* the input of which this is true is left under the root.                 *)
HoldsTarget(ns, m) ==
    \E d \in Reach(ns, CityObject(ns, m)) :
        get_gml_id(ns, NodeChild(d)).some /\ get_gml_id(ns, NodeChild(d)).val \in gml_ids

C8_RetainedIffTargeted ==
    AfterRound1 =>
        /\ \A m \in Members(nodes) : HoldsTarget(nodes, m)
        /\ \A m \in Members(parsed) : HoldsTarget(parsed, m) => m \in Members(nodes)

\* Scenario A: a member is retained for a nested target with its
\* featureless branch and the path to the target, another member is dropped
C8_Witness ==
    /\ pc = "round2"
    /\ Members(parsed) \ Members(nodes) # {}
    /\ \E m \in Members(nodes) :
          /\ Pruned(m)
          /\ \E c \in ElementChildren(nodes, CityObject(nodes, m)) : ~HasFeature(nodes, c)
          /\ \E c \in ElementChildren(nodes, CityObject(nodes, m)) :
                IdsUnder(nodes, c) \cap gml_ids # {} /\ HasFeature(nodes, c)

----------------------------------------------------------------------------
(* C9.  After round 1 referred-ids is the union, over the members left     *)
(* under the root, of the gml:ids carried in the member's subtree, the     *)
(* member element included, as the pruning left it.                        *)
C9_ReferredIdsOfMembers ==
    AfterRound1 =>
        referred_gmlids = UNION {IdsUnder(nodes, m) : m \in Members(nodes)}

(* C9, amended.  After round 1 referred-ids is the union, over the members *)
(* left under the root, of the gml:ids carried in the subtree of the       *)
(* member's city object (its single child) as the pruning left it: every   *)
(* id carried there is in it, and an id of a pruned node or of a dropped   *)
(* member is in it only if a surviving node of a retained city object      *)
(* carries it too.  An id the member element itself carries is not in it.  *)
C9_ReferredIdsExact ==
    AfterRound1 =>
        referred_gmlids =
            UNION {IdsUnder(nodes, CityObject(nodes, m)) : m \in Members(nodes)}

\* a member was pruned and an id of the input is not referred any more
C9_Witness ==
    /\ pc = "round2"
    /\ referred_gmlids # {}
    /\ \E m \in Members(nodes) :
          /\ Pruned(m)
          /\ IdsUnder(parsed, m) \ referred_gmlids # {}

----------------------------------------------------------------------------
(* C10.  Idempotence: when a call returns, the call on the returned text   *)
(* with the same target set returns too, and its output carries the same   *)
(* gml:ids and it returns the same referred-images.                        *)
C10_Idempotent ==
    (call = 2 /\ pc \in {"done", "raised", "hang"}) =>
        /\ pc = "done"
        /\ IdsUnder(nodes, root) = first.ids
        /\ referred_images = first.images

----------------------------------------------------------------------------
(* The tags of a text, read without building a tree.                       *)

\* the text Xml.__init__ gives to _parse: blanks, the BOM and the header
\* taken off (the empty text when the header has no end)
XmlBody(text) ==
    LET s1        == Strip(text)
        s2        == IF StartsWith(s1, <<"BOM">>) THEN Slice(s1, 1, Len(s1)) ELSE s1
        hasHeader == StartsWith(s2, <<"<", "?", "xml">>)
        cut       == Find2(s2, "?", ">")
    IN  IF ~hasHeader THEN Strip(s2)
        ELSE IF cut = -1 THEN <<>>
        ELSE Strip(Slice(s2, cut + 2, Len(s2)))

\* The tags of xml from position i on, open being the names of the elements
\* open there, innermost last.  The result is
\*   "none"     no element starts where one should (no "<", or no name),
\*   "mismatch" a closing tag <//name> names another element than the
\*              innermost open one,
\*   "open"     the text ends with an element open,
\*   "intag"    the text ends inside a tag,
\*   "closed"   the first element is closed.
RECURSIVE ScanTags(_, _, _)
ScanTags(xml, i, open) ==
    LET isTag   == i < Len(xml) /\ At(xml, i) = <<"<">>
        nxt     == Find(xml, "<", i)
        end     == Find(xml, ">", i + 1)
        tag     == Slice(xml, i + 1, end)
        closing == StartsWith(tag, <<"/">>)
        name    == SubSeq(tag, 1, NameLen(tag))
    IN  CASE ~isTag /\ open = <<>> -> "none"
          [] ~isTag /\ open # <<>> /\ (i >= Len(xml) \/ nxt = -1) -> "open"
          [] ~isTag /\ open # <<>> /\ i < Len(xml) /\ nxt # -1 -> ScanTags(xml, nxt, open)
          [] isTag /\ end = -1 -> "intag"
          [] isTag /\ end # -1 /\ closing /\ open = <<>> -> "none"
          [] isTag /\ end # -1 /\ closing /\ open # <<>>
                   /\ SubSeq(tag, 2, Len(tag)) # open[Len(open)] -> "mismatch"
          [] isTag /\ end # -1 /\ closing /\ Len(open) = 1
                   /\ SubSeq(tag, 2, Len(tag)) = open[1] -> "closed"
          [] isTag /\ end # -1 /\ closing /\ Len(open) > 1
                   /\ SubSeq(tag, 2, Len(tag)) = open[Len(open)] ->
                 ScanTags(xml, end + 1, SubSeq(open, 1, Len(open) - 1))
          [] isTag /\ end # -1 /\ ~closing /\ name = <<>> -> "none"
          [] isTag /\ end # -1 /\ ~closing /\ name # <<>>
                   /\ EndsWith(RStrip(tag), <<"/">>) /\ open = <<>> -> "closed"
          [] isTag /\ end # -1 /\ ~closing /\ name # <<>>
                   /\ EndsWith(RStrip(tag), <<"/">>) /\ open # <<>> ->
                 ScanTags(xml, end + 1, open)
          [] isTag /\ end # -1 /\ ~closing /\ name # <<>>
                   /\ ~EndsWith(RStrip(tag), <<"/">>) ->
                 ScanTags(xml, end + 1, Append(open, name))

Tags(text) == ScanTags(XmlBody(text), 0, <<>>)

\* Xml(text) returned an object with a tree
Accepted == pc \in {"parsed", "built"} /\ root # 0

----------------------------------------------------------------------------
(* C11.  Round-trip stability: when the Parser accepts d, the Parser       *)
(* accepts Serialize(Parse(d)) too and serializing what it parsed gives    *)
(* the same text again.                                                    *)
C11_RoundTripStable ==
    (call = 2 /\ pc # "call") =>
        /\ pc \in {"parsed", "built"}
        /\ root # 0
        /\ pc = "built" => out = first.bytes

----------------------------------------------------------------------------
(* C12.  When a closing tag names another element than the innermost open  *)
(* one, the Parser raises: Xml(text) returns no object.                    *)
C12_MismatchRaises ==
    (pc # "call" /\ Tags(content) = "mismatch") => pc = "raised"

\* a closing tag of another name two levels below the root, after a member
\* that was closed properly
C12_Witness ==
    /\ pc = "raised"
    /\ call = 1
    /\ Tags(content) = "mismatch"
    /\ Len(nodes) > 6

----------------------------------------------------------------------------
(* C13.  When the text ends with an element still open, the Parser raises  *)
(* instead of returning a tree.                                            *)
C13_OpenAtEndRaises ==
    (pc # "call" /\ Tags(content) = "open") => ~Accepted

----------------------------------------------------------------------------
(* C14.  When the text after the BOM and the header does not start with    *)
(* "<" (the empty text included), the Parser raises instead of returning   *)
(* an Xml object.                                                          *)
C14_NoStartRaises ==
    (pc # "call" /\ ~StartsWith(XmlBody(content), <<"<">>)) => pc = "raised"

----------------------------------------------------------------------------
(* C15.  Non-coverage: round 1's step on a member (with one Node child) in *)
(* which no supplied target id occurs does not raise, does not keep the    *)
(* member, changes no node and adds nothing to referred-ids; this covers   *)
(* the empty target set and target ids no element carries.                 *)
C15_UntargetedMemberDropped ==
    [][(/\ pc = "round1"
        /\ k < Len(nodes[root].children)
        /\ Toplevel.isNode
        /\ nodes[Toplevel.id].name = <<"core:", "cityObjectMember">>
        /\ Len(nodes[Toplevel.id].children) = 1
        /\ nodes[Toplevel.id].children[1].isNode
        /\ IdsUnder(nodes, Toplevel.id) \cap gml_ids = {})
       => /\ pc' = "round1"
          /\ new_toplevels' = new_toplevels
          /\ referred_gmlids' = referred_gmlids
          /\ nodes' = nodes]_vars

\* a call with a target id that no element carries among its targets
\* returns: one member was dropped, another one is retained, and no id of
\* the dropped one is referred
C15_Witness ==
    /\ pc = "done"
    /\ gml_ids \ IdsUnder(parsed, root) # {}
    /\ Members(nodes) # {}
    /\ \E m \in Members(parsed) \ Members(nodes) :
          /\ IdsUnder(parsed, m) # {}
          /\ IdsUnder(parsed, m) \cap referred_gmlids = {}

----------------------------------------------------------------------------
(* C16.  No output when the structure is wrong: if the root of the parsed  *)
(* document is not core:CityModel, or some core:cityObjectMember child of  *)
(* the root, wherever it stands, does not have exactly one child that is   *)
(* a Node, the call never gets past round 1, whatever the target set: no   *)
(* bytes and no images are returned.                                       *)
WrongStructure ==
    \/ parsed[root].name # <<"core:", "CityModel">>
    \/ \E m \in Named(parsed, ElementChildren(parsed, root), "core:", "cityObjectMember") :
          ~(Len(parsed[m].children) = 1 /\ parsed[m].children[1].isNode)

C16_WrongStructureAborts ==
    (pc # "call" /\ root # 0 /\ WrongStructure) =>
        /\ pc \in {"round1", "raised"}
        /\ out = <<>>
        /\ referred_images = {}
        /\ (pc = "round1" => k < Len(nodes[root].children))

\* the call has raised at a member with two children that stands between a
\* member it kept and an appearance member
C16_Witness ==
    /\ pc = "raised"
    /\ root # 0
    /\ parsed[root].name = <<"core:", "CityModel">>
    /\ k = 2
    /\ Len(new_toplevels) = 1
    /\ Len(parsed[root].children) = 3
    /\ Len(parsed[parsed[root].children[2].id].children) = 2

----------------------------------------------------------------------------
(* C17.  What round 1 leaves alone: after round 1 the children of the root *)
(* that are not core:cityObjectMember are the same Nodes in the same       *)
(* order as in the input, no Node of their subtrees has changed, and the   *)
(* children of the root are a subsequence of the input's, so that the      *)
(* order among the surviving children is the input's.                      *)
NotMember(ns, c) == ns[c.id].name # <<"core:", "cityObjectMember">>

C17_OthersPassThrough ==
    AfterRound1 /\ pc = "round2" =>
        /\ SelectSeq(nodes[root].children, LAMBDA c : NotMember(nodes, c))
             = SelectSeq(parsed[root].children, LAMBDA c : NotMember(parsed, c))
        /\ nodes[root].children
             = SelectSeq(parsed[root].children,
                         LAMBDA c : c \in Range(nodes[root].children))
        /\ \A c \in Range(parsed[root].children) :
              NotMember(parsed, c) =>
                  \A d \in Reach(parsed, c.id) : nodes[d] = parsed[d]

\* round 1 dropped the member that stood before another child of the root
C17_Witness ==
    /\ pc = "round2"
    /\ Len(parsed[root].children) = 2
    /\ ~NotMember(parsed, parsed[root].children[1])
    /\ NotMember(parsed, parsed[root].children[2])
    /\ nodes[root].children = <<parsed[root].children[2]>>
    /\ Cardinality(Reach(parsed, parsed[root].children[2].id)) > 3

----------------------------------------------------------------------------
(* C20.  find_path_to(root, t) is the list of Nodes from root down to the  *)
(* first Node, in document order (depth first, a Node before its           *)
(* children), that carries gml:id t, each Node of the list being the       *)
(* parent of the next; it is None exactly when no Node of the subtree      *)
(* carries t.  A later Node with the same id is never the end of it.       *)

\* the Nodes of the subtree of n in document order
RECURSIVE PreOrder(_, _), PreOrderFrom(_, _, _)
PreOrder(ns, n) == <<n>> \o PreOrderFrom(ns, ns[n].children, 1)

PreOrderFrom(ns, ch, j) ==
    IF j > Len(ch) THEN <<>>
    ELSE (IF ch[j].isNode THEN PreOrder(ns, ch[j].id) ELSE <<>>)
             \o PreOrderFrom(ns, ch, j + 1)

PathIsFirstMatch(ns, n, t) ==
    LET path  == find_path_to(ns, NodeChild(n), t)
        order == PreOrder(ns, n)
        hits  == {j \in 1 .. Len(order) : t \in CarriedIds(ns, order[j])}
        fst   == CHOOSE j \in hits : \A h \in hits : j <= h
    IN  IF hits = {} THEN path = <<>>
        ELSE /\ path # <<>>
             /\ path[1] = n
             /\ path[Len(path)] = order[fst]
             /\ \A j \in 1 .. Len(path) - 1 :
                   NodeChild(path[j + 1]) \in Range(ns[path[j]].children)

C20_PathToFirstMatch ==
    [][PrunerCalled =>
          \A t \in gml_ids :
              PathIsFirstMatch(nodes, CityObject(nodes, Toplevel.id), t)]_vars

\* a member was pruned for an id that two of its Nodes carry: the first of
\* them is kept and the second one is gone
C20_Witness ==
    /\ pc = "round1"
    /\ \E m \in Members(parsed) :
          /\ Pruned(m)
          /\ \E t \in gml_ids :
                LET order == PreOrder(parsed, CityObject(parsed, m))
                    hits  == {j \in 1 .. Len(order) : t \in CarriedIds(parsed, order[j])}
                IN  /\ Cardinality(hits) = 2
                    /\ \E j1, j2 \in hits :
                          /\ j1 < j2
                          /\ order[j1] \in Reach(nodes, m)
                          /\ order[j2] \notin Reach(nodes, m)
                          /\ Len(find_path_to(parsed, NodeChild(CityObject(parsed, m)), t)) = 3

----------------------------------------------------------------------------
(* C19.  The text the call returns is accepted by the Parser, and the tree *)
(* the Parser makes of it equals the tree that was serialized (as round 1  *)
(* and round 2 left it) in tag names, attribute text, order of the         *)
(* children and text.                                                      *)

\* the children ch from j on, after acc, texts that stand next to each other
\* (after the pruning took the Node between them) joined into one
RECURSIVE JoinTexts(_, _, _)
JoinTexts(ch, j, acc) ==
    IF j > Len(ch) THEN acc
    ELSE IF ~ch[j].isNode /\ acc # <<>> /\ ~acc[Len(acc)].isNode
    THEN JoinTexts(ch, j + 1,
                   [acc EXCEPT ![Len(acc)] = TextChild(@.text \o ch[j].text)])
    ELSE JoinTexts(ch, j + 1, Append(acc, ch[j]))

\* the tree of Node n1 of ns1 and the tree of Node n2 of ns2 are equal:
\* the same names and attribute texts, and the same children in the same
\* order, a text being equal to a text with the same characters
RECURSIVE SameTree(_, _, _, _)
SameTree(ns1, n1, ns2, n2) ==
    LET ch1 == JoinTexts(ns1[n1].children, 1, <<>>)
        ch2 == JoinTexts(ns2[n2].children, 1, <<>>)
    IN  /\ ns1[n1].name = ns2[n2].name
        /\ ns1[n1].attr = ns2[n2].attr
        /\ Len(ch1) = Len(ch2)
        /\ \A j \in 1 .. Len(ch1) :
              /\ ch1[j].isNode = ch2[j].isNode
              /\ IF ch1[j].isNode THEN SameTree(ns1, ch1[j].id, ns2, ch2[j].id)
                 ELSE ch1[j].text = ch2[j].text

C19_OutputReparsesEqual ==
    pc = "done" =>
        LET xml == XmlInit(out)
        IN  /\ xml.st = "ok"
            /\ xml.root # 0
            /\ xml.header = header
            /\ SameTree(nodes, root, xml.nodes, xml.root)

----------------------------------------------------------------------------
(* C18.  A call is a function of (content, gml_ids): whatever the order in *)
(* which the loop of prune_to_targets takes the target ids, the pruning    *)
(* gives the same Nodes; and a second call with the same content and the   *)
(* same gml_ids returns, with the same text and the same referred-images   *)
(* as the first one.                                                       *)

\* the orders in which a set can be iterated
Orders(S) ==
    {f \in [1 .. Cardinality(S) -> S] :
        \A i, j \in 1 .. Cardinality(S) : i # j => f[i] # f[j]}

\* path_node_ids after the loop of lines 143-146 has taken the target ids
\* order[j], order[j + 1], ..., acc being path_node_ids before
RECURSIVE PathNodeIdsInOrder(_, _, _, _, _)
PathNodeIdsInOrder(ns, n, order, j, acc) ==
    IF j > Len(order) THEN acc
    ELSE LET path == find_path_to(ns, NodeChild(n), order[j])
         IN  PathNodeIdsInOrder(ns, n, order, j + 1, acc \cup Range(path))

----------------------------------------------------------------------------
(* C21.  A member whose city object has a target as its own gml:id is kept *)
(* as it is: round 1's step on it appends the member to new_toplevels and  *)
(* changes no Node, and after round 1 the member is a child of the root    *)
(* and every Node of its subtree is as the Parser left it, whatever        *)
(* features or other targets are nested in it.                             *)
DirectlyTargeted(ns, m) ==
    /\ Len(ns[m].children) = 1
    /\ ns[m].children[1].isNode
    /\ get_gml_id(ns, ns[m].children[1]).some
    /\ get_gml_id(ns, ns[m].children[1]).val \in gml_ids

C21_TargetedMemberKeptWhole ==
    [][/\ (/\ pc = "round1"
           /\ k < Len(nodes[root].children)
           /\ IsNamed(nodes, Toplevel, "core:", "cityObjectMember")
           /\ DirectlyTargeted(nodes, Toplevel.id))
          => /\ pc' = "round1"
             /\ nodes' = nodes
             /\ new_toplevels' = Append(new_toplevels, Toplevel)
       /\ pc' = "round2" =>
             \A m \in Members(parsed) :
                 DirectlyTargeted(parsed, m) =>
                     /\ m \in Members(nodes')
                     /\ \A d \in Reach(parsed, m) : nodes'[d] = parsed[d]]_vars

\* round 1 has kept a member whose city object is a target, with a nested
\* target, nested features that are no targets and all its Nodes
C21_Witness ==
    /\ pc = "round2"
    /\ \E m \in Members(nodes) :
          /\ DirectlyTargeted(parsed, m)
          /\ \E t \in gml_ids :
                /\ get_gml_id(parsed, NodeChild(CityObject(parsed, m))) # Some(t)
                /\ t \in IdsUnder(parsed, m)
          /\ \E d \in Reach(nodes, CityObject(nodes, m)) \ {CityObject(nodes, m)} :
                IsFeatureNode(nodes, d) /\ CarriedIds(nodes, d) \cap gml_ids = {}
          /\ Reach(nodes, m) = Reach(parsed, m)

----------------------------------------------------------------------------
(* C22.  collect_gml_id_recurse of a Node is exactly the set of the gml:id *)
(* values carried by the Nodes of its subtree, itself included: the id     *)
(* get_gml_id gives for a Node of the subtree is in it, and a text child   *)
(* adds nothing, whatever it reads.  It is stated of every Node of the     *)
(* tree as round 1 left it (or as it was when the call raised).            *)
C22_IndexerExact ==
    (pc \in {"round2", "raised"} /\ root # 0) =>
        \A n \in Reach(nodes, root) :
            LET result == collect_gml_id_recurse(nodes, NodeChild(n))
            IN  /\ result = IdsUnder(nodes, n)
                /\ \A d \in Reach(nodes, n) :
                      get_gml_id(nodes, NodeChild(d)).some =>
                          get_gml_id(nodes, NodeChild(d)).val \in result
                /\ \A c \in Range(nodes[n].children) :
                      ~c.isNode => collect_gml_id_recurse(nodes, c) = {}

\* round 1 has indexed a city object that carries two gml:id tokens after
\* another token and has a text child that reads like a gml:id token
C22_Witness ==
    /\ pc = "round2"
    /\ \E m \in Members(nodes) :
          /\ Cardinality(CarriedIds(nodes, CityObject(nodes, m))) = 2
          /\ CarriedIds(nodes, CityObject(nodes, m)) \subseteq referred_gmlids
          /\ Len(Split(nodes[CityObject(nodes, m)].attr)) = 3
          /\ \E d \in Reach(nodes, m) :
                \E c \in Range(nodes[d].children) :
                    /\ ~c.isNode
                    /\ GmlIdTokens(c.text) # <<>>
                    /\ GmlIdOf(GmlIdTokens(c.text)[1]) \notin referred_gmlids

----------------------------------------------------------------------------
(* C23.  The keep-path set holds Nodes, not contents: when two element     *)
(* children of a keep-path Node are equal in tag, attribute text and       *)
(* content and only one of them is in the keep-path set, the Pruner keeps  *)
(* that one, and keeps the other one exactly when its subtree holds no     *)
(* feature node.                                                           *)
C23_KeepPathByIdentity ==
    [][PrunerCalled =>
          LET keep == PathNodeIds(nodes, CityObject(nodes, Toplevel.id), gml_ids)
          IN  \A p \in keep :
                  \A c1 \in ElementChildren(nodes, p) \cap keep :
                      \A c2 \in ElementChildren(nodes, p) \ keep :
                          SameTree(nodes, c1, nodes, c2) =>
                              /\ NodeChild(c1) \in Range(nodes'[p].children)
                              /\ NodeChild(c2) \in Range(nodes'[p].children)
                                     <=> ~HasFeature(nodes, c2)]_vars

\* a member was pruned in which a part on a path has a twin that is gone,
\* and a geometry on a path has a twin that is still there
C23_Witness ==
    /\ pc = "round1"
    /\ \E m \in Members(parsed) :
          /\ Pruned(m)
          /\ \E p \in KeepPath(m) :
                /\ \E c1 \in ElementChildren(parsed, p) \cap KeepPath(m) :
                      \E c2 \in ElementChildren(parsed, p) \ KeepPath(m) :
                          /\ SameTree(parsed, c1, parsed, c2)
                          /\ HasFeature(parsed, c2)
                          /\ c1 \in Reach(nodes, m)
                          /\ c2 \notin Reach(nodes, m)
                /\ \E c1 \in ElementChildren(parsed, p) \cap KeepPath(m) :
                      \E c2 \in ElementChildren(parsed, p) \ KeepPath(m) :
                          /\ SameTree(parsed, c1, parsed, c2)
                          /\ ~HasFeature(parsed, c2)
                          /\ c1 \in Reach(nodes, m)
                          /\ c2 \in Reach(nodes, m)

----------------------------------------------------------------------------
(* C24.  The layout of the text build() returns: an element none of whose  *)
(* children is an element is written <tag attrs>text</tag> and a newline;  *)
(* an element with an element child is written as its opening tag on a     *)
(* line, then every child on a line of its own, a text child too, then     *)
(* its closing tag on a line.  The opening tag is <tag> when the attribute *)
(* text is empty and <tag attrs> with one blank otherwise, and the         *)
(* children come in their order.                                           *)
C24_SerializerLayout ==
    pc = "built" =>
        /\ out = header \o NodeBuild(nodes, root)
        /\ \A n \in Reach(nodes, root) :
              LET node    == nodes[n]
                  ch      == node.children
                  opening == IF node.attr = <<>> THEN <<"<">> \o node.name \o <<">">>
                             ELSE <<"<">> \o node.name \o <<" ">> \o node.attr \o <<">">>
                  closing == <<"<", "/">> \o node.name \o <<">", "\n">>
                  compact == \A j \in 1 .. Len(ch) : ~ch[j].isNode
                  line(c) == IF c.isNode THEN NodeBuild(nodes, c.id)
                             ELSE c.text \o <<"\n">>
              IN  NodeBuild(nodes, n) =
                      IF compact
                      THEN opening \o Concat([j \in 1 .. Len(ch) |-> ch[j].text])
                               \o closing
                      ELSE opening \o <<"\n">>
                               \o Concat([j \in 1 .. Len(ch) |-> line(ch[j])])
                               \o closing

----------------------------------------------------------------------------
(* C25.  Round 2 ends the call with no bytes and no images, whatever round *)
(* 1 has done to the tree, when a shape it relies on is not there: a       *)
(* top-level app:appearanceMember whose children are not one               *)
(* app:Appearance element; below it a child of the app:Appearance that is  *)
(* not an element, an app:surfaceDataMember that does not have exactly one *)
(* element child, a child of that child that is not an element, or an      *)
(* app:target there with no uri= token that does not have exactly one      *)
(* text child.                                                             *)
BadTarget(ns, g) ==
    /\ ns[g].name = <<"app:", "target">>
    /\ UriTokens(ns[g].attr) = <<>>
    /\ ~(Len(ns[g].children) = 1 /\ ~ns[g].children[1].isNode)

BadSurfaceData(ns, e) ==
    \/ ~(Len(ns[e].children) = 1 /\ ns[e].children[1].isNode)
    \/ \E g \in Range(ns[ns[e].children[1].id].children) :
           ~g.isNode \/ BadTarget(ns, g.id)

BadAppearanceMember(ns, a) ==
    \/ ~(/\ Len(ns[a].children) = 1
          /\ ns[a].children[1].isNode
          /\ ns[ns[a].children[1].id].name = <<"app:", "Appearance">>)
    \/ \E c \in Range(ns[ns[a].children[1].id].children) :
           \/ ~c.isNode
           \/ /\ ns[c.id].name = <<"app:", "surfaceDataMember">>
              /\ BadSurfaceData(ns, c.id)

ShapeViolated(ns) ==
    \E a \in Named(ns, ElementChildren(ns, root), "app:", "appearanceMember") :
        BadAppearanceMember(ns, a)

C25_BadShapeAborts ==
    [][(pc = "round2" /\ ShapeViolated(nodes)) =>
          /\ pc' = "raised"
          /\ out' = <<>>
          /\ referred_images' = {}]_vars

\* round 1 has pruned a member and kept it, round 2 has scanned a whole
\* appearanceMember and raised at an app:target of the next one
C25_Witness ==
    /\ pc = "raised"
    /\ root # 0
    /\ ~WrongStructure
    /\ \A c \in Range(parsed[root].children) : c.isNode
    /\ nodes[root].children = new_toplevels
    /\ \E m \in Members(nodes) :
          Pruned(m) /\ nodes[CityObject(nodes, m)] # parsed[CityObject(nodes, m)]
    /\ \E a \in Named(nodes, ElementChildren(nodes, root), "app:", "appearanceMember") :
          ~BadAppearanceMember(nodes, a)
    /\ \E a \in Named(nodes, ElementChildren(nodes, root), "app:", "appearanceMember") :
          /\ HasOnlyNodeChild(nodes, a)
          /\ \E e \in ElementChildren(nodes, nodes[a].children[1].id) :
                /\ HasOnlyNodeChild(nodes, e)
                /\ \E g \in ElementChildren(nodes, nodes[e].children[1].id) :
                      BadTarget(nodes, g)

----------------------------------------------------------------------------
(* C26.  When no target id is found in a city object (path_node_ids is     *)
(* empty), prune_to_targets returns False without rewriting anything: the  *)
(* step changes no Node, in the subtree or elsewhere, and the member is    *)
(* not kept.                                                               *)
C26_NothingFoundNothingRewritten ==
    [][(/\ PrunerCalled
        /\ PathNodeIds(nodes, CityObject(nodes, Toplevel.id), gml_ids) = {})
       => /\ \A d \in Reach(nodes, Toplevel.id) : nodes'[d] = nodes[d]
          /\ nodes' = nodes
          /\ new_toplevels' = new_toplevels
          /\ referred_gmlids' = referred_gmlids]_vars

\* the Pruner was called with targets that are all elsewhere on a city
\* object with feature nodes below it: the member is dropped, its Nodes
\* are as they were
C26_Witness ==
    /\ pc = "round1"
    /\ gml_ids # {}
    /\ \E m \in Members(parsed) :
          /\ Pruned(m)
          /\ KeepPath(m) = {}
          /\ \E c \in ElementChildren(parsed, CityObject(parsed, m)) :
                HasFeature(parsed, c)
          /\ NodeChild(m) \notin Range(new_toplevels)
          /\ \A d \in Reach(parsed, m) : nodes[d] = parsed[d]

----------------------------------------------------------------------------
(* C27.  Xml(text) ends for every text: it returns an object or raises,    *)
(* also when the text ends inside the text content of an open element or   *)
(* with elements still open.                                               *)
C27_ParsingTerminates ==
    pc # "call" => pc \in {"parsed", "built", "raised"}

----------------------------------------------------------------------------
(* C28.  Monotone in the target set: when a call with target set S has     *)
(* returned, the call on the same content with a target set that includes  *)
(* S returns too; every Node and every text the first call left in the     *)
(* tree is left in it by the second, under the same parent; and the first  *)
(* call's referred-ids and referred-images are among the second's.         *)

\* the children of the Nodes under rt, Node by Node, kids being the children
\* lists
RECURSIVE ReachKids(_, _)
ReachKids(kids, n) ==
    {n} \cup UNION {ReachKids(kids, kids[n][j].id) :
                       j \in {h \in 1 .. Len(kids[n]) : kids[n][h].isNode}}

C28_MonotoneInTargets ==
    (call = 2 /\ pc \in {"done", "raised", "hang"}) =>
        /\ pc = "done"
        /\ \A n \in ReachKids(first.kept, root) :
              /\ n \in Reach(nodes, root)
              /\ Range(first.kept[n]) \subseteq Range(nodes[n].children)
        /\ first.referred \subseteq referred_gmlids
        /\ first.images \subseteq referred_images

\* with a target more the second call kept a part the first call had
\* pruned from a member, a surfaceDataMember the first call had removed,
\* and returned an image more
C28_Witness ==
    /\ call = 2
    /\ pc = "done"
    /\ first.images # {}
    /\ referred_images \ first.images # {}
    /\ first.referred # {}
    /\ referred_gmlids \ first.referred # {}
    /\ ScannedEntries(nodes) \ ReachKids(first.kept, root) # {}
    /\ \E m \in Members(nodes) :
          /\ m \in ReachKids(first.kept, root)
          /\ Pruned(m)
          /\ Reach(nodes, m) \ ReachKids(first.kept, m) # {}

----------------------------------------------------------------------------
(* C29.  The two rounds only delete.  At every point of a call after the   *)
(* parse there are the Nodes the Parser made and no other, each with the   *)
(* name and the attribute text the Parser gave it; the children of every   *)
(* Node of the tree are children the Parser gave to that same Node, each   *)
(* at most once and in the Parser's order (Nodes and texts alike).         *)

\* a[i..] can be had from b[j..] by leaving elements out
RECURSIVE IsSubsequence(_, _, _, _)
IsSubsequence(a, i, b, j) ==
    CASE i > Len(a) -> TRUE
      [] i <= Len(a) /\ j > Len(b) -> FALSE
      [] i <= Len(a) /\ j <= Len(b) /\ a[i] = b[j] -> IsSubsequence(a, i + 1, b, j + 1)
      [] i <= Len(a) /\ j <= Len(b) /\ a[i] # b[j] -> IsSubsequence(a, i, b, j + 1)

C29_OnlyDeletes ==
    (pc \in {"round1", "round2", "build", "done", "raised"} /\ root # 0) =>
        /\ Len(nodes) = Len(parsed)
        /\ \A n \in 1 .. Len(nodes) :
              /\ nodes[n].name = parsed[n].name
              /\ nodes[n].attr = parsed[n].attr
        /\ \A n \in Reach(nodes, root) :
              IsSubsequence(nodes[n].children, 1, parsed[n].children, 1)

\* a call has returned after round 1 dropped a child from between others
\* of a Node and round 2 removed a target and a surfaceDataMember
C29_Witness ==
    /\ pc = "done"
    /\ \E m \in Members(nodes) :
          \E n \in Reach(nodes, m) :
              \E j \in 2 .. Len(parsed[n].children) - 1 :
                  /\ parsed[n].children[j] \notin Range(nodes[n].children)
                  /\ parsed[n].children[j - 1] \in Range(nodes[n].children)
                  /\ parsed[n].children[j + 1] \in Range(nodes[n].children)
    /\ ScannedEntries(parsed) \ Reach(nodes, root) # {}
    /\ \E e \in ScannedEntries(nodes) :
          /\ TargetsOf(parsed, e) \ Reach(nodes, root) # {}
          /\ Len(nodes[SurfaceData(nodes, e)].children) >= 2

----------------------------------------------------------------------------
(* C30.  The Pruner prunes below a nested target too: when a member is     *)
(* retained for a target found below its city object, the target Node      *)
(* stays and every element child of it that holds a feature node and is    *)
(* on no keep path is removed from it, while its other children stay.  A   *)
(* city object that is a target itself keeps all its children, the         *)
(* sub-features that are no targets too.                                   *)
C30_NestedTargetPruned ==
    [][/\ PrunerCalled =>
             LET cityobject == CityObject(nodes, Toplevel.id)
                 keep       == PathNodeIds(nodes, cityobject, gml_ids)
             IN  \A tid \in gml_ids :
                     LET path == find_path_to(nodes, NodeChild(cityobject), tid)
                         node == path[Len(path)]
                     IN  path # <<>> =>
                            /\ node \in Reach(nodes', Toplevel.id)
                            /\ \A c \in Range(nodes[node].children) :
                                   c \in Range(nodes'[node].children)
                                       <=> ~(/\ c.isNode
                                             /\ c.id \notin keep
                                             /\ HasFeature(nodes, c.id))
       /\ (/\ pc = "round1"
           /\ k < Len(nodes[root].children)
           /\ IsNamed(nodes, Toplevel, "core:", "cityObjectMember")
           /\ DirectlyTargeted(nodes, Toplevel.id))
          => nodes'[CityObject(nodes, Toplevel.id)].children
                 = nodes[CityObject(nodes, Toplevel.id)].children]_vars

\* a member was retained for a nested target that has a part of its own:
\* the target is there, the part is gone
C30_Witness ==
    /\ pc = "round1"
    /\ \E m \in Members(parsed) :
          /\ Pruned(m)
          /\ NodeChild(m) \in Range(new_toplevels)
          /\ \E tid \in gml_ids :
                LET path == find_path_to(parsed, NodeChild(CityObject(parsed, m)), tid)
                IN  /\ Len(path) >= 3
                    /\ path[Len(path)] \in Reach(nodes, m)
                    /\ \E c \in ElementChildren(parsed, path[Len(path)]) :
                          /\ HasFeature(parsed, c)
                          /\ c \notin Reach(nodes, m)

====
